---- MODULE Spec2Model ----
(***************************************************************************)
(* External merge sort engine of MEZk/external-sort (package extsort, its *)
(* heap package fileheap and the chunk/less functions of the driver).     *)
(* One sortEngine value, its working directory, its output sink and one   *)
(* caller that calls Write any number of times and then Close once.       *)
(***************************************************************************)
EXTENDS Integers, Sequences, FiniteSets, TLC

\* ---------------------------------------------------------------- bounds
\* Largest number of Write calls one caller makes.
MaxWrites == 4
\* Largest memLimit passed to New.
MaxMemLimit == 6
\* Largest number of I/O failures the environment produces in one run.
MaxFaults == 1

\* ------------------------------------------------------------- constants
\* linesDelim = '\n'
NL == 10
\* byte of the digit '0' in the generator's dictionary; digit d is Zero + d
Zero == 48
D1 == Zero + 1
D2 == Zero + 2

\* The records the caller may pass to Write: delimiter-terminated lines.
Records == { <<NL>>, <<D1, NL>>, <<D1, D2, NL>> }

\* ------------------------------------------------------------------ state
VARIABLES
    memLimit,        \* se.memLimit
    memUsed,         \* se.memUsed
    tmpFilesNumber,  \* se.tmpFilesNumber
    memoryBuffer,    \* se.memoryBuffer: sequence of records (nil = <<>>)
    lessFunc,        \* se.lessFunc: "bytes" (driver) or "numeric" (README example)
    closable,        \* whether se.out implements io.Closer
    tmpDirExists,    \* whether se.tmpDir exists on disk
    disk,            \* files of se.tmpDir: disk[i+1] is the content of file "i"
    out,             \* bytes received by se.out
    outClosed,       \* number of times se.out.Close was invoked
    files,           \* Close's map of open readers: index -> bytes not yet read
    fileHeap,        \* fileHeap.entries: sequence of [FileIdx, Data]
    memLimitPerFile, \* sort's memLimitPerFile
    fillIdx,         \* fillHeap's loop variable i
    readBytes,       \* fillHeap's readBytes
    pc,              \* position of the caller / of Close
    ret,             \* error returned by the last call ("nil" when none)
    wrote,           \* int returned by the last Write
    sortErr,         \* error sort is returning while its defer runs
    written,         \* history: the records passed to Write, in call order
    removeCalls,     \* history: number of removeTempFiles invocations
    panicking,       \* whether a panic is unwinding the goroutine
    removeMayFail,   \* environment: whether os.RemoveAll can fail
    faultsLeft       \* environment: I/O failures still to come

vars == << memLimit, memUsed, tmpFilesNumber, memoryBuffer, lessFunc, closable,
           tmpDirExists, disk, out, outClosed, files, fileHeap, memLimitPerFile,
           fillIdx, readBytes, pc, ret, wrote, sortErr, written, removeCalls,
           panicking, removeMayFail, faultsLeft >>

\* ---------------------------------------------------------------- helpers
RECURSIVE Concat(_)
\* The flat concatenation of the bytes of a sequence of records.
Concat(rs) == IF rs = <<>> THEN <<>> ELSE Head(rs) \o Concat(Tail(rs))

RECURSIVE SumLen(_)
SumLen(rs) == IF rs = <<>> THEN 0 ELSE Len(Head(rs)) + SumLen(Tail(rs))

Prefix(s, k) == SubSeq(s, 1, k)
Suffix(s, k) == SubSeq(s, k + 1, Len(s))

RECURSIVE BytesCompareLess(_, _)
\* bytes.Compare(b1, b2) < 0
BytesCompareLess(b1, b2) ==
    IF b2 = <<>> THEN FALSE
    ELSE IF b1 = <<>> THEN TRUE
    ELSE IF Head(b1) # Head(b2) THEN Head(b1) < Head(b2)
    ELSE BytesCompareLess(Tail(b1), Tail(b2))

RECURSIVE Atoi(_, _)
\* The number written in decimal digits before the delimiter.
Atoi(b, acc) ==
    IF b = <<>> \/ Head(b) = NL THEN acc
    ELSE Atoi(Tail(b), 10 * acc + (Head(b) - Zero))

\* The README example's order: lines compared as numbers.
NumericLess(b1, b2) == Atoi(b1, 0) < Atoi(b2, 0)

\* se.lessFunc(a1, a2)
Less(lf, a1, a2) == IF lf = "numeric" THEN NumericLess(a1, a2) ELSE BytesCompareLess(a1, a2)

RECURSIVE InsertSorted(_, _, _)
\* One pass of insertion sort: r moves left while it is less than its neighbour.
InsertSorted(lf, s, r) ==
    IF s = <<>> THEN <<r>>
    ELSE IF Less(lf, r, s[Len(s)])
         THEN Append(InsertSorted(lf, Prefix(s, Len(s) - 1), r), s[Len(s)])
         ELSE Append(s, r)

RECURSIVE SortRecords(_, _)
\* sort.Sort on the memory buffer (insertion sort, as sort.Sort does on short slices).
SortRecords(lf, buf) ==
    IF buf = <<>> THEN <<>>
    ELSE InsertSorted(lf, SortRecords(lf, Prefix(buf, Len(buf) - 1)), buf[Len(buf)])

\* Mutant of Overlay: the file is opened for appending.
Mut_OverlayAppend(old, new) == old \o new

\* os.OpenFile(O_CREATE|O_WRONLY) and writes from offset 0: no truncation, so
\* bytes of an older, longer content stay behind the new ones.
Overlay(old, new) == new \o Suffix(old, Len(new))

\* ------------------------------------------------------- flushToTempFile
\* The ways one flushToTempFile call can end: "ok", "create" (os.OpenFile
\* fails), or "write" (out.Write or out.Flush fails after k bytes reached the
\* file).
FlushOutcomes(buf) ==
    {[kind |-> "ok", k |-> 0]}
    \cup (IF faultsLeft > 0
          THEN {[kind |-> "create", k |-> 0]}
               \cup {[kind |-> "write", k |-> n] : n \in 0..(SumLen(buf) - 1)}
          ELSE {})

\* The working directory after file number n was opened and got the bytes `new`.
PutFile(d, n, new) ==
    IF n + 1 <= Len(d)
    THEN [d EXCEPT ![n + 1] = Overlay(d[n + 1], new)]
    ELSE Append(d, new)

\* Mutant of FlushToTempFile: the file is counted before it is written, so a
\* failed write leaves it counted.
Mut_FlushCountsEarly(buf, used, n, d, lf, f) ==
    LET sorted == SortRecords(lf, buf)
        bytes  == Concat(sorted)
    IN  CASE f.kind = "create" ->
               [memoryBuffer |-> sorted, memUsed |-> used, tmpFilesNumber |-> n,
                disk |-> d, err |-> "create"]
          [] f.kind = "write" ->
               [memoryBuffer |-> sorted, memUsed |-> used, tmpFilesNumber |-> n + 1,
                disk |-> PutFile(d, n, Prefix(bytes, f.k)), err |-> "write"]
          [] OTHER ->
               [memoryBuffer |-> <<>>, memUsed |-> 0, tmpFilesNumber |-> n + 1,
                disk |-> PutFile(d, n, bytes), err |-> "nil"]

\* Mutant of FlushToTempFile: the buffer is written as it was filled, unsorted.
Mut_FlushUnsorted(buf, used, n, d, lf, f) ==
    LET bytes == Concat(buf)
    IN  CASE f.kind = "create" ->
               [memoryBuffer |-> buf, memUsed |-> used, tmpFilesNumber |-> n,
                disk |-> d, err |-> "create"]
          [] f.kind = "write" ->
               [memoryBuffer |-> buf, memUsed |-> used, tmpFilesNumber |-> n,
                disk |-> PutFile(d, n, Prefix(bytes, f.k)), err |-> "write"]
          [] OTHER ->
               [memoryBuffer |-> <<>>, memUsed |-> 0, tmpFilesNumber |-> n + 1,
                disk |-> PutFile(d, n, bytes), err |-> "nil"]

\* Mutant of FlushToTempFile: the counter is reset before the file is written,
\* so a failed write leaves it at zero beside a full buffer.
Mut_FlushResetsEarly(buf, used, n, d, lf, f) ==
    LET sorted == SortRecords(lf, buf)
        bytes  == Concat(sorted)
    IN  CASE f.kind = "create" ->
               [memoryBuffer |-> sorted, memUsed |-> used, tmpFilesNumber |-> n,
                disk |-> d, err |-> "create"]
          [] f.kind = "write" ->
               [memoryBuffer |-> sorted, memUsed |-> 0, tmpFilesNumber |-> n,
                disk |-> PutFile(d, n, Prefix(bytes, f.k)), err |-> "write"]
          [] OTHER ->
               [memoryBuffer |-> <<>>, memUsed |-> 0, tmpFilesNumber |-> n + 1,
                disk |-> PutFile(d, n, bytes), err |-> "nil"]

\* flushToTempFile on a buffer `buf`, ending as `f` says: the engine fields and
\* the directory afterwards, and the error returned.
FlushToTempFile(buf, used, n, d, lf, f) ==
    LET sorted == SortRecords(lf, buf)
        bytes  == Concat(sorted)
    IN  CASE f.kind = "create" ->
               [memoryBuffer |-> sorted, memUsed |-> used, tmpFilesNumber |-> n,
                disk |-> d, err |-> "create"]
          [] f.kind = "write" ->
               [memoryBuffer |-> sorted, memUsed |-> used, tmpFilesNumber |-> n,
                disk |-> PutFile(d, n, Prefix(bytes, f.k)), err |-> "write"]
          [] OTHER ->
               [memoryBuffer |-> <<>>, memUsed |-> 0, tmpFilesNumber |-> n + 1,
                disk |-> PutFile(d, n, bytes), err |-> "nil"]

\* Mutant of SpillNeeded: the spill waits until the limit is exceeded.
Mut_SpillNeeded(used, limit) == used > limit

\* Whether Write spills once the counter is `used`.
SpillNeeded(used, limit) == used >= limit

\* ------------------------------------------------------------------ Write
WriteOp(b) ==
    LET buf  == Append(memoryBuffer, b)
        used == memUsed + Len(b)
    IN  IF SpillNeeded(used, memLimit)
        THEN \E f \in FlushOutcomes(buf) :
                LET r == FlushToTempFile(buf, used, tmpFilesNumber, disk, lessFunc, f)
                IN  /\ memoryBuffer' = r.memoryBuffer
                    /\ memUsed' = r.memUsed
                    /\ tmpFilesNumber' = r.tmpFilesNumber
                    /\ disk' = r.disk
                    /\ ret' = (IF r.err = "nil" THEN "nil" ELSE "flush")
                    /\ wrote' = (IF r.err = "nil" THEN Len(b) ELSE 0)
                    /\ faultsLeft' = (IF r.err = "nil" THEN faultsLeft ELSE faultsLeft - 1)
        ELSE /\ memoryBuffer' = buf
             /\ memUsed' = used
             /\ ret' = "nil"
             /\ wrote' = Len(b)
             /\ UNCHANGED << tmpFilesNumber, disk, faultsLeft >>

Write ==
    /\ pc = "idle"
    /\ Len(written) < MaxWrites
    /\ \E b \in Records :
          /\ WriteOp(b)
          /\ written' = Append(written, b)
    /\ UNCHANGED << memLimit, lessFunc, closable, tmpDirExists, out, outClosed, files,
                    fileHeap, memLimitPerFile, fillIdx, readBytes, pc, sortErr,
                    removeCalls, panicking, removeMayFail >>

\* ------------------------------------------------------------------ Close
\* Mutant of RemainderFlushNeeded: Close flushes an empty buffer too.
Mut_RemainderFlushNeeded(used) == used >= 0

\* Close, line 80: whether the buffer still holds bytes to flush.
RemainderFlushNeeded(used) == used > 0

\* Close, lines 80-89: flush what the buffer still holds, then free it.
CloseStart ==
    /\ pc = "idle"
    /\ IF RemainderFlushNeeded(memUsed)
       THEN \E f \in FlushOutcomes(memoryBuffer) :
               LET r == FlushToTempFile(memoryBuffer, memUsed, tmpFilesNumber, disk,
                                        lessFunc, f)
               IN  /\ memUsed' = r.memUsed
                   /\ tmpFilesNumber' = r.tmpFilesNumber
                   /\ disk' = r.disk
                   /\ memoryBuffer' = (IF r.err = "nil" THEN <<>> ELSE r.memoryBuffer)
                   /\ ret' = (IF r.err = "nil" THEN "nil" ELSE "flush")
                   /\ pc' = (IF r.err = "nil" THEN "open" ELSE "close_defer")
                   /\ faultsLeft' = (IF r.err = "nil" THEN faultsLeft ELSE faultsLeft - 1)
       ELSE /\ memoryBuffer' = <<>>
            /\ ret' = "nil"
            /\ pc' = "open"
            /\ UNCHANGED << memUsed, tmpFilesNumber, disk, faultsLeft >>
    /\ UNCHANGED << memLimit, lessFunc, closable, tmpDirExists, out, outClosed, files,
                    fileHeap, memLimitPerFile, fillIdx, readBytes, wrote, sortErr,
                    written, removeCalls, panicking, removeMayFail >>

\* Close, lines 91-99: one reader per counted file; any os.OpenFile may fail.
CloseOpenFiles ==
    /\ pc = "open"
    /\ \E ok \in (IF faultsLeft > 0 /\ tmpFilesNumber > 0 THEN BOOLEAN ELSE {TRUE}) :
          IF ok /\ Len(disk) >= tmpFilesNumber
          THEN /\ files' = [i \in 0..(tmpFilesNumber - 1) |-> disk[i + 1]]
               /\ pc' = (IF tmpFilesNumber = 1 THEN "copy" ELSE "sort")
               /\ UNCHANGED << ret, faultsLeft >>
          ELSE /\ ret' = "open"
               /\ pc' = "close_defer"
               /\ faultsLeft' = (IF ok THEN faultsLeft ELSE faultsLeft - 1)
               /\ UNCHANGED files
    /\ UNCHANGED << memLimit, memUsed, tmpFilesNumber, memoryBuffer, lessFunc, closable,
                    tmpDirExists, disk, out, outClosed, fileHeap, memLimitPerFile,
                    fillIdx, readBytes, wrote, sortErr, written, removeCalls,
                    panicking, removeMayFail >>

\* Mutant of CloseCopy: a failed copy still goes on to close the sink.
Mut_CloseCopy ==
    /\ pc = "copy"
    /\ \E k \in (IF faultsLeft > 0 THEN 0..Len(files[0]) ELSE {Len(files[0])}) :
          /\ out' = out \o Prefix(files[0], k)
          /\ files' = [files EXCEPT ![0] = Suffix(files[0], k)]
          /\ pc' = "sink_close"
          /\ IF k = Len(files[0])
             THEN UNCHANGED << ret, faultsLeft >>
             ELSE /\ ret' = "copy"
                  /\ faultsLeft' = faultsLeft - 1
    /\ UNCHANGED << memLimit, memUsed, tmpFilesNumber, memoryBuffer, lessFunc, closable,
                    tmpDirExists, disk, outClosed, fileHeap, memLimitPerFile,
                    fillIdx, readBytes, wrote, sortErr, written, removeCalls,
                    panicking, removeMayFail >>

\* Close, lines 101-106: the only file is copied to the output with io.Copy.
CloseCopy ==
    /\ pc = "copy"
    /\ \E k \in (IF faultsLeft > 0 THEN 0..Len(files[0]) ELSE {Len(files[0])}) :
          /\ out' = out \o Prefix(files[0], k)
          /\ files' = [files EXCEPT ![0] = Suffix(files[0], k)]
          /\ IF k = Len(files[0])
             THEN /\ pc' = "sink_close"
                  /\ UNCHANGED << ret, faultsLeft >>
             ELSE /\ ret' = "copy"
                  /\ pc' = "close_defer"
                  /\ faultsLeft' = faultsLeft - 1
    /\ UNCHANGED << memLimit, memUsed, tmpFilesNumber, memoryBuffer, lessFunc, closable,
                    tmpDirExists, disk, outClosed, fileHeap, memLimitPerFile,
                    fillIdx, readBytes, wrote, sortErr, written, removeCalls,
                    panicking, removeMayFail >>

\* ------------------------------------------------------------------- heap
\* FileHeap.Less(i, j), indices from 0 as in the code.
HeapLess(h, lf, i, j) == Less(lf, h[i + 1].Data, h[j + 1].Data)

\* FileHeap.Swap(i, j)
HeapSwap(h, i, j) == [h EXCEPT ![i + 1] = h[j + 1], ![j + 1] = h[i + 1]]

\* Mutant of HeapUp: a pushed entry stays at the end.
Mut_HeapUp(h, lf, j) == h

RECURSIVE HeapUp(_, _, _)
\* container/heap up(j): the entry at j rises while it is less than its parent.
HeapUp(h, lf, j) ==
    LET i == IF j = 0 THEN 0 ELSE (j - 1) \div 2
    IN  IF i = j \/ ~HeapLess(h, lf, j, i) THEN h
        ELSE HeapUp(HeapSwap(h, i, j), lf, i)

RECURSIVE HeapDown(_, _, _, _)
\* container/heap down(i, n): the entry at i sinks below its smaller child.
HeapDown(h, lf, i, n) ==
    LET j1 == 2 * i + 1
        j  == IF j1 + 1 < n /\ HeapLess(h, lf, j1 + 1, j1) THEN j1 + 1 ELSE j1
    IN  IF j1 >= n THEN h
        ELSE IF ~HeapLess(h, lf, j, i) THEN h
        ELSE HeapDown(HeapSwap(h, i, j), lf, j, n)

\* fileheap.NewEntry(fileIdx, data)
NewEntry(fileIdx, data) == [FileIdx |-> fileIdx, Data |-> data]

\* heap.Push(fileHeap, e): FileHeap.Push appends, up restores the heap order.
HeapPush(h, lf, e) == HeapUp(Append(h, e), lf, Len(h))

\* Mutant of HeapPop: the root is taken and the rest is left as it stands.
Mut_HeapPop(h, lf) == [entry |-> h[1], heap |-> Tail(h)]

\* heap.Pop(fileHeap): the root goes to the end, down restores the order of the
\* rest, FileHeap.Pop cuts the last entry off. The entry and the heap left.
HeapPop(h, lf) ==
    LET n == Len(h) - 1
        d == HeapDown(HeapSwap(h, 0, n), lf, 0, n)
    IN  [entry |-> d[n + 1], heap |-> Prefix(d, n)]

\* ------------------------------------------------------------- chunkFunc
\* Whether the bytes hold a delimiter.
HasDelim(data) == \E p \in 1..Len(data) : data[p] = NL

\* Position of the first delimiter.
DelimPos(data) == CHOOSE p \in 1..Len(data) :
                     data[p] = NL /\ \A q \in 1..(p - 1) : data[q] # NL

\* The driver's chunkFunc, reader.ReadBytes(linesDelim), on a reader that still
\* holds `data`: the bytes up to and including the delimiter, or what is left and
\* io.EOF when there is no delimiter; the reader keeps `rest`.
Chunk(data) ==
    IF HasDelim(data)
    THEN [b |-> Prefix(data, DelimPos(data)), rest |-> Suffix(data, DelimPos(data)),
          err |-> "nil"]
    ELSE [b |-> data, rest |-> <<>>, err |-> "EOF"]

\* Mutant of Delete: the reader of an exhausted run stays in the map.
Mut_Delete(fs, i) == fs

\* delete(files, i)
Delete(fs, i) == [j \in (DOMAIN fs) \ {i} |-> fs[j]]

\* ---------------------------------------------------------- sort (merge)
\* Mutant of MemLimitPerFile: every run gets the whole limit as its budget.
Mut_MemLimitPerFile(limit, n) == limit

\* sort's per-file budget, line 162.
MemLimitPerFile(limit, n) == limit \div (n + 1)

\* sort, lines 158-162: the heap is created and the per-file budget computed.
SortStart ==
    /\ pc = "sort"
    /\ fileHeap' = <<>>
    /\ memLimitPerFile' = MemLimitPerFile(memLimit, tmpFilesNumber)
    /\ sortErr' = "nil"
    /\ pc' = "loop"
    /\ UNCHANGED << memLimit, memUsed, tmpFilesNumber, memoryBuffer, lessFunc, closable,
                    tmpDirExists, disk, out, outClosed, files, fillIdx, readBytes,
                    ret, wrote, written, removeCalls, panicking, removeMayFail,
                    faultsLeft >>

\* sort, line 189: top of the loop; an empty heap calls fillHeap.
LoopTop ==
    /\ pc = "loop"
    /\ IF Len(fileHeap) = 0
       THEN /\ pc' = "fill"
            /\ fillIdx' = 0
            /\ readBytes' = 0
       ELSE /\ pc' = "pop"
            /\ UNCHANGED << fillIdx, readBytes >>
    /\ UNCHANGED << memLimit, memUsed, tmpFilesNumber, memoryBuffer, lessFunc, closable,
                    tmpDirExists, disk, out, outClosed, files, fileHeap,
                    memLimitPerFile, ret, wrote, sortErr, written, removeCalls,
                    panicking, removeMayFail, faultsLeft >>

\* Mutant of FillLoopCond: the loop stops one file early.
Mut_FillLoopCond(i, fs) == i + 1 < Cardinality(DOMAIN fs)

\* Whether fillHeap's outer loop goes on: i < len(files), len taken anew each time.
FillLoopCond(i, fs) == i < Cardinality(DOMAIN fs)

\* Mutant of FillBudgetReached: reading goes on until the budget is exceeded.
Mut_FillBudgetReached(rb, budget) == rb > budget

\* Whether fillHeap stops reading a file after readBytes bytes, line 179.
FillBudgetReached(rb, budget) == rb >= budget

\* fillHeap, lines 165-185: one pass of the inner loop (one chunkFunc call), or
\* the end of the outer loop. files[i] of a missing key is a nil reader, on which
\* the chunk function panics.
FillStep ==
    /\ pc = "fill"
    /\ IF ~FillLoopCond(fillIdx, files)
       THEN /\ pc' = "filled"
            /\ UNCHANGED << files, fileHeap, fillIdx, readBytes, sortErr, panicking,
                            faultsLeft >>
       ELSE IF fillIdx \notin DOMAIN files
       THEN /\ panicking' = TRUE
            /\ pc' = "sort_defer"
            /\ UNCHANGED << files, fileHeap, fillIdx, readBytes, sortErr, faultsLeft >>
       ELSE \E ok \in (IF faultsLeft > 0 THEN BOOLEAN ELSE {TRUE}) :
               LET c == Chunk(files[fillIdx])
               IN  IF ~ok
                   THEN /\ sortErr' = "fill"
                        /\ pc' = "sort_defer"
                        /\ faultsLeft' = faultsLeft - 1
                        /\ UNCHANGED << files, fileHeap, fillIdx, readBytes, panicking >>
                   ELSE IF c.err = "EOF"
                   THEN /\ files' = Delete(files, fillIdx)
                        /\ fillIdx' = fillIdx + 1
                        /\ readBytes' = 0
                        /\ UNCHANGED << fileHeap, pc, sortErr, panicking, faultsLeft >>
                   ELSE /\ files' = [files EXCEPT ![fillIdx] = c.rest]
                        /\ fileHeap' = HeapPush(fileHeap, lessFunc, NewEntry(fillIdx, c.b))
                        /\ IF FillBudgetReached(readBytes + Len(c.b), memLimitPerFile)
                           THEN /\ fillIdx' = fillIdx + 1
                                /\ readBytes' = 0
                           ELSE /\ readBytes' = readBytes + Len(c.b)
                                /\ UNCHANGED fillIdx
                        /\ UNCHANGED << pc, sortErr, panicking, faultsLeft >>
    /\ UNCHANGED << memLimit, memUsed, tmpFilesNumber, memoryBuffer, lessFunc, closable,
                    tmpDirExists, disk, out, outClosed, memLimitPerFile, ret, wrote,
                    written, removeCalls, removeMayFail >>

\* sort, lines 195-198: after fillHeap, an empty heap ends the loop.
AfterFill ==
    /\ pc = "filled"
    /\ pc' = (IF Len(fileHeap) = 0 THEN "sort_defer" ELSE "pop")
    /\ UNCHANGED << memLimit, memUsed, tmpFilesNumber, memoryBuffer, lessFunc, closable,
                    tmpDirExists, disk, out, outClosed, files, fileHeap,
                    memLimitPerFile, fillIdx, readBytes, ret, wrote, sortErr, written,
                    removeCalls, panicking, removeMayFail, faultsLeft >>

\* The ways one pass of lines 200-218 can end: "ok", "write" (se.out.Write fails
\* after k bytes) or "chunk" (chunkFunc fails on the popped entry's file).
DrainOutcomes(e) ==
    {[kind |-> "ok", k |-> 0]}
    \cup (IF faultsLeft > 0
          THEN {[kind |-> "write", k |-> n] : n \in 0..(Len(e.Data) - 1)}
               \cup (IF e.FileIdx \in DOMAIN files THEN {[kind |-> "chunk", k |-> 0]} ELSE {})
          ELSE {})

\* sort, lines 200-218: pop the least entry, write it, read the next record of
\* its file.
Drain ==
    /\ pc = "pop"
    /\ LET p == HeapPop(fileHeap, lessFunc)
           e == p.entry
       IN  \E f \in DrainOutcomes(e) :
              IF f.kind = "write"
              THEN /\ out' = out \o Prefix(e.Data, f.k)
                   /\ fileHeap' = p.heap
                   /\ sortErr' = "write"
                   /\ pc' = "sort_defer"
                   /\ faultsLeft' = faultsLeft - 1
                   /\ UNCHANGED files
              ELSE /\ out' = out \o e.Data
                   /\ IF e.FileIdx \notin DOMAIN files
                      THEN /\ fileHeap' = p.heap
                           /\ pc' = "loop"
                           /\ UNCHANGED << files, sortErr, faultsLeft >>
                      ELSE LET c == Chunk(files[e.FileIdx])
                           IN  IF f.kind = "chunk"
                               THEN /\ fileHeap' = p.heap
                                    /\ sortErr' = "replace"
                                    /\ pc' = "sort_defer"
                                    /\ faultsLeft' = faultsLeft - 1
                                    /\ UNCHANGED files
                               ELSE IF c.err = "EOF"
                               THEN /\ files' = Delete(files, e.FileIdx)
                                    /\ fileHeap' = p.heap
                                    /\ pc' = "loop"
                                    /\ UNCHANGED << sortErr, faultsLeft >>
                               ELSE /\ files' = [files EXCEPT ![e.FileIdx] = c.rest]
                                    /\ fileHeap' = HeapPush(p.heap, lessFunc,
                                                            NewEntry(e.FileIdx, c.b))
                                    /\ pc' = "loop"
                                    /\ UNCHANGED << sortErr, faultsLeft >>
    /\ UNCHANGED << memLimit, memUsed, tmpFilesNumber, memoryBuffer, lessFunc, closable,
                    tmpDirExists, disk, outClosed, memLimitPerFile, fillIdx, readBytes,
                    ret, wrote, written, removeCalls, panicking, removeMayFail >>

\* ------------------------------------------------------ removeTempFiles
\* removeTempFiles when os.RemoveAll succeeds: the directory and all its files
\* are gone; on a path that does not exist RemoveAll returns nil.
RemoveTempFiles ==
    /\ removeCalls' = removeCalls + 1
    /\ tmpDirExists' = FALSE
    /\ disk' = <<>>

\* Mutant of SortFailed: Close ignores the error sort returns.
Mut_SortFailed(err) == FALSE

\* Close, line 109: whether sort returned an error.
SortFailed(err) == err # "nil"

\* Mutant of SortDefer: sort returns without removing the directory.
Mut_SortDefer ==
    /\ pc = "sort_defer"
    /\ IF panicking
       THEN /\ pc' = "close_defer"
            /\ UNCHANGED ret
       ELSE IF SortFailed(sortErr)
       THEN /\ ret' = "sort"
            /\ pc' = "close_defer"
       ELSE /\ pc' = "sink_close"
            /\ UNCHANGED ret
    /\ UNCHANGED << memLimit, memUsed, tmpFilesNumber, memoryBuffer, lessFunc, closable,
                    out, outClosed, files, fileHeap, memLimitPerFile, fillIdx,
                    readBytes, wrote, sortErr, written, panicking, removeMayFail,
                    faultsLeft, removeCalls, tmpDirExists, disk >>

\* sort's deferred removeTempFiles (line 158), then sort returns to Close
\* (lines 108-112).
SortDefer ==
    /\ pc = "sort_defer"
    /\ RemoveTempFiles
    /\ IF panicking
       THEN /\ pc' = "close_defer"
            /\ UNCHANGED ret
       ELSE IF SortFailed(sortErr)
       THEN /\ ret' = "sort"
            /\ pc' = "close_defer"
       ELSE /\ pc' = "sink_close"
            /\ UNCHANGED ret
    /\ UNCHANGED << memLimit, memUsed, tmpFilesNumber, memoryBuffer, lessFunc, closable,
                    out, outClosed, files, fileHeap, memLimitPerFile, fillIdx,
                    readBytes, wrote, sortErr, written, panicking, removeMayFail,
                    faultsLeft >>

\* Close, lines 114-120: the output is closed when it is an io.Closer, and what
\* its Close returns is what Close returns.
SinkClose ==
    /\ pc = "sink_close"
    /\ IF closable
       THEN \E ok \in (IF faultsLeft > 0 THEN BOOLEAN ELSE {TRUE}) :
               /\ outClosed' = outClosed + 1
               /\ ret' = (IF ok THEN "nil" ELSE "sinkclose")
               /\ faultsLeft' = (IF ok THEN faultsLeft ELSE faultsLeft - 1)
       ELSE /\ ret' = "nil"
            /\ UNCHANGED << outClosed, faultsLeft >>
    /\ pc' = "close_defer"
    /\ UNCHANGED << memLimit, memUsed, tmpFilesNumber, memoryBuffer, lessFunc, closable,
                    tmpDirExists, disk, out, files, fileHeap, memLimitPerFile, fillIdx,
                    readBytes, wrote, sortErr, written, removeCalls, panicking,
                    removeMayFail >>

\* Mutant of CloseDefer: the directory is removed at the end of the successful
\* path only, not in a defer.
Mut_CloseDefer ==
    /\ pc = "close_defer"
    /\ IF ret = "nil" THEN RemoveTempFiles ELSE UNCHANGED << removeCalls, tmpDirExists, disk >>
    /\ pc' = (IF panicking THEN "panic" ELSE "done")
    /\ UNCHANGED << memLimit, memUsed, tmpFilesNumber, memoryBuffer, lessFunc, closable,
                    out, outClosed, files, fileHeap, memLimitPerFile, fillIdx,
                    readBytes, ret, wrote, sortErr, written, panicking, removeMayFail,
                    faultsLeft >>

\* Close's deferred removeTempFiles (line 78); then Close returns, or the panic
\* goes on to the caller.
CloseDefer ==
    /\ pc = "close_defer"
    /\ RemoveTempFiles
    /\ pc' = (IF panicking THEN "panic" ELSE "done")
    /\ UNCHANGED << memLimit, memUsed, tmpFilesNumber, memoryBuffer, lessFunc, closable,
                    out, outClosed, files, fileHeap, memLimitPerFile, fillIdx,
                    readBytes, ret, wrote, sortErr, written, panicking, removeMayFail,
                    faultsLeft >>

\* removeTempFiles when os.RemoveAll fails: it panics (line 228). A panic
\* out of sort's defer still runs Close's defer; one out of Close's defer reaches
\* the caller.
RemoveTempFilesPanic ==
    /\ pc \in {"sort_defer", "close_defer"}
    /\ removeMayFail
    /\ tmpDirExists
    /\ removeCalls' = removeCalls + 1
    /\ panicking' = TRUE
    /\ pc' = (IF pc = "sort_defer" THEN "close_defer" ELSE "panic")
    /\ UNCHANGED << memLimit, memUsed, tmpFilesNumber, memoryBuffer, lessFunc, closable,
                    tmpDirExists, disk, out, outClosed, files, fileHeap,
                    memLimitPerFile, fillIdx, readBytes, ret, wrote, sortErr, written,
                    removeMayFail, faultsLeft >>

\* ------------------------------------------------------------------- Init
InitEngine ==
    /\ memUsed = 0
    /\ tmpFilesNumber = 0
    /\ memoryBuffer = <<>>
    /\ tmpDirExists = TRUE
    /\ disk = <<>>
    /\ out = <<>>
    /\ outClosed = 0
    /\ files = <<>>
    /\ fileHeap = <<>>
    /\ memLimitPerFile = 0
    /\ fillIdx = 0
    /\ readBytes = 0
    /\ pc = "idle"
    /\ ret = "nil"
    /\ wrote = 0
    /\ sortErr = "nil"
    /\ written = <<>>
    /\ removeCalls = 0
    /\ panicking = FALSE
    /\ faultsLeft = MaxFaults

Init ==
    /\ InitEngine
    /\ memLimit \in 0..MaxMemLimit
    /\ lessFunc = "bytes"
    /\ closable \in BOOLEAN
    /\ removeMayFail = FALSE

\* ------------------------------------------------------------------- Next
CloseSteps ==
    \/ CloseStart
    \/ CloseOpenFiles
    \/ CloseCopy
    \/ SortStart
    \/ LoopTop
    \/ FillStep
    \/ AfterFill
    \/ Drain
    \/ SortDefer
    \/ SinkClose
    \/ CloseDefer

Next == Write \/ CloseSteps

Spec == Init /\ [][Next]_vars

\* What a call of Close does after its first statement, lines 91-121 and sort.
CloseRun ==
    \/ CloseOpenFiles
    \/ CloseCopy
    \/ SortStart
    \/ LoopTop
    \/ FillStep
    \/ AfterFill
    \/ Drain
    \/ SortDefer
    \/ SinkClose
    \/ CloseDefer

\* Close runs on one goroutine and waits for nothing: once it is called, each of
\* its steps is taken. Whether Close is called at all is the caller's choice.
SpecFair == Init /\ [][Next]_vars /\ WF_vars(CloseRun)

\* The same engine on a file system where os.RemoveAll can fail.
InitRemoveFails ==
    /\ InitEngine
    /\ memLimit \in 0..MaxMemLimit
    /\ lessFunc = "bytes"
    /\ closable \in BOOLEAN
    /\ removeMayFail = TRUE

NextRemoveFails == Write \/ CloseSteps \/ RemoveTempFilesPanic

SpecRemoveFails == InitRemoveFails /\ [][NextRemoveFails]_vars

\* A line holding the number n < 100 in decimal digits.
Line(n) == IF n < 10 THEN <<Zero + n, NL>> ELSE <<Zero + (n \div 10), Zero + (n % 10), NL>>

\* The README example: the lines 4, 8, 6, 1, 9, 12, in the order of the file.
ExampleInput == << Line(4), Line(8), Line(6), Line(1), Line(9), Line(12) >>

InitExample ==
    /\ InitEngine
    /\ memLimit \in 1..MaxMemLimit
    /\ lessFunc = "numeric"
    /\ closable \in BOOLEAN
    /\ removeMayFail = FALSE

\* The caller writes the example's lines in their order.
WriteExample ==
    /\ pc = "idle"
    /\ Len(written) < Len(ExampleInput)
    /\ WriteOp(ExampleInput[Len(written) + 1])
    /\ written' = Append(written, ExampleInput[Len(written) + 1])
    /\ UNCHANGED << memLimit, lessFunc, closable, tmpDirExists, out, outClosed, files,
                    fileHeap, memLimitPerFile, fillIdx, readBytes, pc, sortErr,
                    removeCalls, panicking, removeMayFail >>

NextExample == WriteExample \/ CloseSteps

SpecExample == InitExample /\ [][NextExample]_vars

\* ============================================================ properties
RECURSIVE ChunkAll(_)
\* The records of a byte stream, as repeated chunkFunc calls deliver them.
ChunkAll(data) ==
    LET c == Chunk(data)
    IN  IF c.err = "EOF" THEN <<>> ELSE <<c.b>> \o ChunkAll(c.rest)

\* The records the output sink holds.
OutRecords == ChunkAll(out)

\* Every adjacent pair (r[i], r[i+1]) satisfies not less(r[i+1], r[i]).
Ordered(lf, rs) == \A i \in 1..(Len(rs) - 1) : ~Less(lf, rs[i + 1], rs[i])

\* How many times r occurs in rs.
Count(rs, r) == Cardinality({i \in 1..Len(rs) : rs[i] = r})

\* The same records, each as many times.
SameMultiset(rs, ss) ==
    /\ Len(rs) = Len(ss)
    /\ \A i \in 1..Len(rs) : Count(rs, rs[i]) = Count(ss, rs[i])

\* No I/O operation has failed so far.
NoFault == faultsLeft = MaxFaults

\* Close has returned without error.
ClosedOk == pc = "done" /\ ret = "nil"

\* Positions of Close inside sort.
MergePcs == {"sort", "loop", "fill", "filled", "pop", "sort_defer"}

\* C1 (total order): in every state, whatever was written, whatever the memory
\* limit and whichever path Close takes (no run, one run copied, several runs
\* merged), the records in the output sink are in non-decreasing comparator
\* order: no adjacent pair has less(r[i+1], r[i]).
C1_TotalOrder == Ordered(lessFunc, OutRecords)

\* C1 witness: a merge of several runs, with more than one record staged per
\* run, has emitted all of an input that was not written in order.
C1_Witness ==
    /\ ClosedOk
    /\ tmpFilesNumber >= 2
    /\ memLimitPerFile >= 2
    /\ Len(OutRecords) = MaxWrites
    /\ ~Ordered(lessFunc, written)

\* C2 (completeness): once Close has returned without error, the output is
\* made of whole records and holds exactly the multiset of records passed to
\* Write, for every memory limit and number of runs.
C2_Completeness ==
    ClosedOk => /\ Concat(OutRecords) = out
                /\ SameMultiset(OutRecords, written)

\* C2 witness: a successful Close over three runs with a repeated record.
C2_Witness ==
    /\ ClosedOk
    /\ tmpFilesNumber >= 3
    /\ \E i, j \in 1..Len(written) : i # j /\ written[i] = written[j]
    /\ SameMultiset(OutRecords, written)

\* ceil(a / b) for b > 0
Ceil(a, b) == (a + b - 1) \div b

\* All records of the sequence have the same size.
Uniform(rs) == \A i, j \in 1..Len(rs) : Len(rs[i]) = Len(rs[j])

\* Close is about to open the runs, every spill so far succeeded, the records
\* written have one size and the memory limit is positive.
SpillCountCase == pc = "open" /\ NoFault /\ Uniform(written) /\ memLimit >= 1

\* C3 as stated (spill count): with uniform record sizes, N bytes written and
\* memory limit M, ceil(N / M) runs exist when Close starts merging.
C3_Original ==
    SpillCountCase => tmpFilesNumber = Ceil(SumLen(written), memLimit)

\* C3 amended (spill count): with records of one size s, N bytes written and
\* memory limit M >= 1, a run is spilled every ceil(M / s) records, so
\* ceil(N / (s * ceil(M / s))) runs exist when Close starts merging (ceil(N / M)
\* when s divides M); each of them is non-empty, also when N is an exact
\* multiple of a run's size.
C3_SpillCount ==
    SpillCountCase =>
        /\ Len(disk) = tmpFilesNumber
        /\ \A i \in 1..Len(disk) : disk[i] # <<>>
        /\ IF written = <<>> THEN tmpFilesNumber = 0
           ELSE LET s == Len(written[1])
                IN  tmpFilesNumber = Ceil(SumLen(written), s * Ceil(memLimit, s))

\* C3 witness: N is twice M, the last Write spilled, and two runs exist.
C3_Witness ==
    /\ SpillCountCase
    /\ SumLen(written) = 2 * memLimit
    /\ tmpFilesNumber = 2

\* C4 (cleanup): once Close has returned, with or without error, the working
\* directory and every run in it are gone; removeTempFiles ran once on the
\* paths that do not enter sort and twice on those that do, the second time on
\* a directory already removed, without a panic.
C4_Cleanup ==
    pc = "done" =>
        /\ ~tmpDirExists
        /\ disk = <<>>
        /\ ~panicking
        /\ removeCalls = (IF ret \in {"flush", "open"} \/ tmpFilesNumber = 1 THEN 1 ELSE 2)

\* C4 witness: a merge of several runs failed, Close returned the error, and
\* removeTempFiles ran from sort and again from Close.
C4_Witness ==
    /\ pc = "done"
    /\ ret = "sort"
    /\ tmpFilesNumber >= 2
    /\ removeCalls = 2
    /\ ~tmpDirExists

\* C5 (cleanup failure is an error value): a failure to remove the working
\* directory never makes Close panic.
C5_CleanupErrorReturned == ~panicking /\ pc # "panic"

\* A run made of whole records in comparator order.
WholeRun(lf, bytes) ==
    /\ Concat(ChunkAll(bytes)) = bytes
    /\ Ordered(lf, ChunkAll(bytes))

\* C6 (spill failure leaves the counters alone): a Write whose spill fails
\* returns 0 and an error and leaves the run count and the bytes-used counter
\* as they were when the spill was attempted; so does a Close whose remainder
\* flush fails; and the files Close opens are exactly the counted ones, each a
\* whole sorted run, never a partly written one.
C6_SpillFailureKeepsCounters ==
    [][ /\ (pc = "idle" /\ pc' = "idle" /\ ret' # "nil") =>
              /\ wrote' = 0
              /\ tmpFilesNumber' = tmpFilesNumber
              /\ memUsed' = memUsed + Len(written'[Len(written')])
        /\ (pc = "idle" /\ pc' = "close_defer") =>
              /\ ret' = "flush"
              /\ tmpFilesNumber' = tmpFilesNumber
              /\ memUsed' = memUsed
        /\ (pc = "open" /\ pc' \in {"copy", "sort"}) =>
              /\ DOMAIN files' = 0..(tmpFilesNumber - 1)
              /\ \A i \in DOMAIN files' : WholeRun(lessFunc, files'[i])
      ]_vars

\* C6 witness: a Write has failed in its spill, leaving a partly written file
\* that is not counted.
C6_Witness ==
    /\ pc = "idle"
    /\ ret = "flush"
    /\ wrote = 0
    /\ Len(disk) = tmpFilesNumber + 1
    /\ disk[Len(disk)] # <<>>
    /\ memUsed = SumLen(memoryBuffer)

\* C7 (single-run shortcut): when at least one record was written and the
\* bytes written do not exceed the memory limit, Close never enters sort, one
\* run exists, and a successful Close leaves in the output exactly the bytes of
\* the written records sorted in memory.
C7_SingleRunShortcut ==
    (pc # "idle" /\ Len(written) >= 1 /\ SumLen(written) <= memLimit) =>
        /\ pc \notin MergePcs
        /\ fileHeap = <<>>
        /\ pc \in {"open", "copy", "sink_close"} => tmpFilesNumber = 1
        /\ ClosedOk => /\ tmpFilesNumber = 1
                       /\ out = Concat(SortRecords(lessFunc, written))

\* C7 witness: the bytes written equal the limit, so the last Write spilled,
\* and Close copied the one run of an input that was not written in order.
C7_Witness ==
    /\ ClosedOk
    /\ Len(written) >= 2
    /\ SumLen(written) = memLimit
    /\ ~Ordered(lessFunc, written)
    /\ out = Concat(SortRecords(lessFunc, written))

\* C8 (empty input): Close on an engine that accepted no record creates no
\* run and writes nothing; once it has returned the sink was closed once if it
\* is closable, the working directory is gone, and no error is returned unless
\* the sink's own Close failed.
C8_EmptyInput ==
    (pc # "idle" /\ written = <<>>) =>
        /\ tmpFilesNumber = 0
        /\ disk = <<>>
        /\ out = <<>>
        /\ pc = "done" =>
              /\ ~tmpDirExists
              /\ outClosed = (IF closable THEN 1 ELSE 0)
              /\ ret = "nil" \/ (closable /\ ~NoFault /\ ret = "sinkclose")

\* C8 witness: Close on an empty engine with a closable sink has returned nil.
C8_Witness ==
    /\ ClosedOk
    /\ written = <<>>
    /\ closable
    /\ outClosed = 1
    /\ removeCalls = 2

\* C9 (canonical example): the lines 4, 8, 6, 1, 9, 12 written in this order
\* under the numeric order and a memory limit that spills after every second
\* line (3 or 4 bytes) make the three runs {4,8}, {1,6}, {9,12}; the first
\* refill stages 1, 4 and 9 with 1 at the root; and Close emits 1, 4, 6, 8, 9,
\* 12.
C9_CanonicalExample ==
    (written = ExampleInput /\ memLimit \in 3..4 /\ NoFault) =>
        /\ tmpFilesNumber = 3
        /\ tmpDirExists =>
              disk = << Line(4) \o Line(8), Line(1) \o Line(6), Line(9) \o Line(12) >>
        /\ (pc = "filled" /\ out = <<>>) =>
              fileHeap = << NewEntry(1, Line(1)), NewEntry(0, Line(4)), NewEntry(2, Line(9)) >>
        /\ ClosedOk =>
              out = Line(1) \o Line(4) \o Line(6) \o Line(8) \o Line(9) \o Line(12)

\* C9 witness: the example has been written and Close has emitted the six
\* lines.
C9_Witness ==
    /\ ClosedOk
    /\ written = ExampleInput
    /\ memLimit = 4
    /\ NoFault
    /\ Len(OutRecords) = 6

\* C10 (merge abort): a failing chunkFunc (in the refill or when replacing a
\* popped entry) or a failing write to the sink ends the merge there: sort goes
\* to its return, nothing more is written to the sink, the working directory is
\* removed and Close returns the sort error.
C10_MergeAbort ==
    [][ /\ (sortErr = "nil" /\ sortErr' # "nil") => pc' = "sort_defer"
        /\ sortErr # "nil" =>
              /\ out' = out
              /\ pc' \in {"close_defer", "done"}
              /\ ret' = "sort"
              /\ ~tmpDirExists'
      ]_vars

\* C10 witness: chunkFunc failed when replacing a popped entry, after part of
\* the output was written, and Close returned the sort error.
C10_Witness ==
    /\ pc = "done"
    /\ sortErr = "replace"
    /\ ret = "sort"
    /\ out # <<>>
    /\ ~tmpDirExists

\* The heap entries staged from run i.
StagedOf(i) == {k \in 1..Len(fileHeap) : fileHeap[k].FileIdx = i}

RECURSIVE EntryBytes(_)
\* The bytes of the records a sequence of heap entries holds.
EntryBytes(h) == IF h = <<>> THEN 0 ELSE Len(Head(h).Data) + EntryBytes(Tail(h))

\* The entries of run i, in heap order.
EntriesOf(i) == SelectSeq(fileHeap, LAMBDA e : e.FileIdx = i)

\* The bytes staged from run i.
StagedBytes(i) == EntryBytes(EntriesOf(i))

C12_BufferAccounting ==
    /\ [](memUsed = SumLen(memoryBuffer))
    /\ [][tmpFilesNumber' # tmpFilesNumber => (memUsed' = 0 /\ memoryBuffer' = <<>>)]_vars

\* C12 witness: a spill has failed with two records or more in the buffer, and
\* the counter still is their size, at or over the limit.
C12_Witness ==
    /\ pc = "idle"
    /\ ret = "flush"
    /\ Len(memoryBuffer) >= 2
    /\ memUsed = SumLen(memoryBuffer)
    /\ memUsed >= memLimit
    /\ tmpFilesNumber >= 1

\* C13 (spill trigger): a Write attempts a spill (a run is counted, or the flush
\* error is returned) exactly when the counter plus the record's length is at
\* or over the memory limit; and with a positive limit, after every Write that
\* returned without error the buffer holds fewer bytes than the limit.
C13_SpillTrigger ==
    /\ [][Len(written') = Len(written) + 1 =>
            ((tmpFilesNumber' # tmpFilesNumber \/ ret' # "nil")
                <=> memUsed + Len(written'[Len(written')]) >= memLimit)]_vars
    /\ []((pc = "idle" /\ ret = "nil" /\ memLimit > 0) => SumLen(memoryBuffer) < memLimit)

\* C13 witness: after a spill, successful Writes have brought the buffer to one
\* byte under the limit.
C13_Witness ==
    /\ pc = "idle"
    /\ ret = "nil"
    /\ tmpFilesNumber >= 1
    /\ Len(memoryBuffer) >= 2
    /\ memUsed = memLimit - 1

\* C14 (run invariant): while the working directory exists, the files numbered
\* 0 .. tmpFilesNumber-1 all exist, each a non-empty sequence of whole records
\* in ascending comparator order; at most one more file exists, the one a failed
\* spill left, which is not counted.
C14_RunInvariant ==
    tmpDirExists =>
        /\ Len(disk) \in {tmpFilesNumber, tmpFilesNumber + 1}
        /\ \A i \in 1..tmpFilesNumber :
              /\ disk[i] # <<>>
              /\ WholeRun(lessFunc, disk[i])
        /\ Len(disk) = tmpFilesNumber + 1 => ~NoFault

\* C14 witness: one counted run of two records or more, in order though written
\* out of order, beside an uncounted file that ends inside a record.
C14_Witness ==
    /\ tmpDirExists
    /\ tmpFilesNumber = 1
    /\ Len(ChunkAll(disk[1])) >= 2
    /\ ~Ordered(lessFunc, written)
    /\ Len(disk) = 2
    /\ Concat(ChunkAll(disk[2])) # disk[2]

\* C15 as stated (finalization order): with a closable sink and no failure, the
\* working directory is not removed before the sink has been closed.
C15_Original == (closable /\ NoFault /\ ~tmpDirExists) => outClosed >= 1

\* C15 amended (finalization order): the sink is closed only after the copy or
\* the merge has finished (every reader read to its end, the heap empty) and
\* before Close's own deferred removeTempFiles; on the one-run path the
\* directory still exists when the sink is closed, while on the paths through
\* sort (no run, several runs) sort's deferred removeTempFiles has removed it
\* already.
C15_FinalizationOrder ==
    /\ pc = "sink_close" =>
          /\ fileHeap = <<>>
          /\ \A i \in DOMAIN files : files[i] = <<>>
          /\ outClosed = 0
          /\ IF tmpFilesNumber = 1
             THEN tmpDirExists /\ removeCalls = 0
             ELSE ~tmpDirExists /\ removeCalls = 1
    /\ outClosed >= 1 =>
          /\ pc \in {"close_defer", "done"}
          /\ removeCalls = (IF tmpFilesNumber = 1 THEN 0 ELSE 1) + (IF pc = "done" THEN 1 ELSE 0)
    /\ (tmpFilesNumber = 1 /\ closable /\ NoFault /\ ~tmpDirExists) => outClosed = 1

\* C15 witness: a merge of several runs has finished and the closable sink is
\* about to be closed, the directory being removed already.
C15_Witness ==
    /\ pc = "sink_close"
    /\ closable
    /\ tmpFilesNumber >= 2
    /\ out # <<>>
    /\ outClosed = 0
    /\ ~tmpDirExists

\* C18 (implicit): at the top of every iteration of the merge loop after the
\* first refill (something was written to the sink), every run whose reader is
\* open has a record staged in the heap; so the heap is empty only when no
\* reader is open, and a refill after the first one finds no reader and stages
\* nothing.
C18_OpenRunsStaged ==
    /\ (pc = "loop" /\ out # <<>>) =>
          /\ \A i \in DOMAIN files : StagedOf(i) # {}
          /\ fileHeap = <<>> => DOMAIN files = {}
    /\ (pc \in {"fill", "filled"} /\ out # <<>>) =>
          /\ DOMAIN files = {}
          /\ fileHeap = <<>>

\* C18 witness: the second refill of a merge of several runs has ended with
\* nothing staged.
C18_Witness ==
    /\ pc = "filled"
    /\ tmpFilesNumber >= 2
    /\ Len(OutRecords) >= 3
    /\ fileHeap = <<>>
    /\ DOMAIN files = {}

\* C19 (implicit): the sink is closed at most once, and only at the end of a
\* Close whose remainder flush, opening of the runs and copy or merge returned
\* no error; when Close returns one of those errors the sink was not closed.
C19_SinkClosedOnSuccessOnly ==
    /\ outClosed <= 1
    /\ pc = "sink_close" => (ret = "nil" /\ sortErr = "nil" /\ outClosed = 0)
    /\ outClosed = 1 => (closable /\ sortErr = "nil" /\ ret \in {"nil", "sinkclose"})
    /\ (pc = "done" /\ ret \in {"flush", "open", "copy", "sort"}) => outClosed = 0

\* C19 witness: the copy of the only run failed and Close returned the error
\* without closing the closable sink.
C19_Witness ==
    /\ pc = "done"
    /\ ret = "copy"
    /\ closable
    /\ outClosed = 0

\* C16 (merge termination): once sort is entered its loop is left, and Close
\* returns; and the loop is left without error only with the heap empty and no
\* reader in the map, everything the runs held being in the sink.
C16_MergeTermination ==
    /\ (pc = "sort") ~> (pc = "sort_defer")
    /\ (pc = "sort") ~> (pc = "done")
    /\ []((pc = "sort_defer" /\ sortErr = "nil" /\ ~panicking) =>
             /\ fileHeap = <<>>
             /\ DOMAIN files = {}
             /\ Len(out) = SumLen(written))

\* C16 witness: the loop over several runs has ended without error, the heap
\* empty and the map of readers empty.
C16_Witness ==
    /\ pc = "sort_defer"
    /\ sortErr = "nil"
    /\ tmpFilesNumber >= 2
    /\ fileHeap = <<>>
    /\ DOMAIN files = {}
    /\ Len(OutRecords) = Len(written)

\* The bytes of the records staged in the heap.
HeapBytes == EntryBytes(fileHeap)

RECURSIVE LongestOf(_)
\* The length of the longest record of a sequence of records.
LongestOf(rs) ==
    IF rs = <<>> THEN 0
    ELSE LET m == LongestOf(Tail(rs))
         IN  IF Len(Head(rs)) > m THEN Len(Head(rs)) ELSE m

\* C17 as stated (merge memory bound): at every point of the merge, no record
\* being larger than the memory limit, the bytes staged in the heap are at most
\* the memory limit plus one budget memLimit / (run count + 1) per open run.
C17_Original ==
    (pc \in MergePcs /\ LongestOf(written) <= memLimit) =>
        HeapBytes <= memLimit
                       + Cardinality(DOMAIN files) * (memLimit \div (tmpFilesNumber + 1))

\* C17 (merge memory bound, amended): the budget bounds what is read BEFORE the
\* last record of a batch, not the batch. At every point of the merge at most
\* max(1, budget) records of any one run are staged; during and at the end of a
\* refill the bytes staged from a run, less one of its records, are below the
\* budget (or the run has a single record staged); so at the end of a refill
\* the heap holds at most the memory limit plus one longest record per run.
C17_MergeBound ==
    pc \in MergePcs =>
        /\ \A i \in 0..(tmpFilesNumber - 1) :
              Cardinality(StagedOf(i))
                 <= (IF memLimit \div (tmpFilesNumber + 1) > 1
                     THEN memLimit \div (tmpFilesNumber + 1) ELSE 1)
        /\ pc \in {"fill", "filled"} =>
              \A i \in 0..(tmpFilesNumber - 1) :
                    \/ Cardinality(StagedOf(i)) <= 1
                    \/ \E k \in StagedOf(i) :
                          StagedBytes(i) - Len(fileHeap[k].Data)
                             < memLimit \div (tmpFilesNumber + 1)
        /\ pc = "filled" =>
              HeapBytes <= memLimit + tmpFilesNumber * LongestOf(written)

\* C17 witness: a refill over two runs with a budget of at least one byte has
\* ended with more bytes in the heap than the memory limit plus one budget per
\* open run, no record being larger than the limit.
C17_Witness ==
    /\ pc = "filled"
    /\ tmpFilesNumber = 2
    /\ LongestOf(written) <= memLimit
    /\ memLimit \div (tmpFilesNumber + 1) >= 1
    /\ HeapBytes > memLimit
                     + Cardinality(DOMAIN files) * (memLimit \div (tmpFilesNumber + 1))

====
